---- MODULE Spec2Model ----
(***************************************************************************)
(* Model of the prompt relay: the Express routes POST /api/generate and    *)
(* GET /api/messages (routes.ts), the in-memory message store they use,    *)
(* and the Chat page that drives them (Chat.tsx).                          *)
(*                                                                         *)
(* A string is modelled by its shape: `lead` whitespace characters, then   *)
(* `core` characters that begin and end with a non-whitespace character,   *)
(* then `trail` whitespace characters.  A string without any               *)
(* non-whitespace character has core = 0 and, canonically, trail = 0.      *)
(***************************************************************************)
EXTENDS Integers, Sequences, FiniteSets, TLC

\* ------------------------------------------------------------------ bounds
NumRequests == 2
MaxClock == 1
MaxMutations == 3

\* ------------------------------------------------------- program constants
MaxPromptLen == 2000
TokenDivisor == 4

\* ------------------------------------------------------------------ strings
Str(l, c, t) == [lead |-> l, core |-> c, trail |-> IF c = 0 THEN 0 ELSE t]

EmptyStr == Str(0, 0, 0)

\* String.prototype.length
Length(s) == s.lead + s.core + s.trail

\* String.prototype.trim: drops the leading and the trailing whitespace
Trim(s) == [lead |-> 0, core |-> s.core, trail |-> 0]

IsTrimmed(s) == s.lead = 0 /\ s.trail = 0

\* Prompts a client may put in the body: "", " ", "x", " x ", a 2000-character
\* text, the same after a blank, a 2001-character text.
PromptInputs ==
    { Str(0, 0, 0), Str(1, 0, 0), Str(0, 1, 0), Str(1, 1, 1),
      Str(0, MaxPromptLen, 0), Str(1, MaxPromptLen, 0),
      Str(0, MaxPromptLen + 1, 0) }

\* Texts the collaborator may return: "abcd", " abc ", " ".
GeneratedOutputs == { Str(0, 4, 0), Str(1, 3, 1), Str(1, 0, 0) }

\* Request bodies: no prompt field, a prompt that is not a string, a string.
MissingBody == [kind |-> "missing", prompt |-> EmptyStr]
NonStringBody == [kind |-> "nonstring", prompt |-> EmptyStr]
StringBody(p) == [kind |-> "string", prompt |-> p]

Bodies == {MissingBody, NonStringBody} \cup {StringBody(p) : p \in PromptInputs}

\* ------------------------------------------------------------------- state
VARIABLES
    messages,      \* the store: the Map's entries in insertion order
    nextId,        \* source of fresh identifiers
    now,           \* the clock read by createMessage
    req,           \* one POST /api/generate handler per request
    getResult,     \* body of the latest GET /api/messages response
    inserted,      \* history: ids in the order createMessage inserted them
    prompt,        \* Chat: textarea state
    isGenerating,  \* Chat: loading flag
    mutations,     \* Chat: the mutations started by generateMutation.mutate
    current        \* Chat: index of the mutation the observer follows, 0 if none

serverVars == <<messages, nextId, now, req, getResult, inserted>>
chatVars == <<prompt, isGenerating, mutations, current>>
vars == <<messages, nextId, now, req, getResult, inserted,
          prompt, isGenerating, mutations, current>>

Requests == 1..NumRequests

NoMessage == [id |-> 0, prompt |-> EmptyStr, response |-> EmptyStr, createdAt |-> 0]

NoBody == [id |-> 0, prompt |-> EmptyStr, response |-> EmptyStr, createdAt |-> 0,
           tokens |-> 0]

IdleRequest ==
    [pc |-> "idle", body |-> MissingBody, gen |-> "none", genArgs |-> << >>,
     response |-> EmptyStr, message |-> NoMessage, status |-> 0, resBody |-> NoBody]

Init ==
    /\ messages = << >>
    /\ nextId = 1
    /\ now = 0
    /\ req = [r \in Requests |-> IdleRequest]
    /\ getResult = << >>
    /\ inserted = << >>
    /\ prompt = EmptyStr
    /\ isGenerating = FALSE
    /\ mutations = << >>
    /\ current = 0

\* --------------------------------------------------- shared/schema (promptSchema)
\* promptSchema.parse(req.body): throws a ZodError unless prompt is a string
ParseOk(body) == body.kind = "string"

\* ------------------------------------------------------- storage (MemStorage)
\* faulty variant: the identifier of the first message is handed out again
RepeatedId == IF Len(messages) = 0 THEN nextId ELSE messages[1].id

\* randomUUID(): an identifier no stored message has
FreshId == nextId

\* Map.prototype.set: replaces the entry of key k, or appends a new entry
MapSet(m, k, v) ==
    IF \E i \in 1..Len(m) : m[i].id = k
    THEN [i \in 1..Len(m) |-> IF m[i].id = k THEN v ELSE m[i]]
    ELSE Append(m, v)

\* storage.createMessage(insertMessage) at time t: the stored record
NewMessage(insertMessage, t) ==
    [id |-> FreshId, prompt |-> insertMessage.prompt,
     response |-> insertMessage.response, createdAt |-> t]

\* storage.getMessages(): the Map's values, in insertion order
StorageGetMessages == messages

\* ------------------------------------------------ routes: POST /api/generate
\* line 14: !prompt || prompt.trim().length === 0
PromptEmpty(p) == Length(p) = 0 \/ Length(Trim(p)) = 0

\* faulty variant: the length limit is off by one
PromptTooLongOffByOne(p) == Length(p) > MaxPromptLen + 1

\* line 20: prompt.length > 2000
PromptTooLong(p) == Length(p) > MaxPromptLen

\* faulty variant: the catch block does not tell a ZodError apart
CatchStatusAlways500(error) == 500

\* lines 44-53: the catch block's status for a thrown error
CatchStatus(error) == IF error = "ZodError" THEN 400 ELSE 500

\* line 26: the argument of generateText
GenerateArgument(p) == p

\* faulty variant: the collaborator's output is stored as returned
InsertMessageRawResponse(p, response) == [prompt |-> Trim(p), response |-> response]

\* faulty variant: the request's prompt is stored as received
InsertMessageRawPrompt(p, response) == [prompt |-> p, response |-> Trim(response)]

\* lines 29-32: the record handed to storage.createMessage
InsertMessage(p, response) == [prompt |-> Trim(p), response |-> Trim(response)]

\* line 39: Math.floor(response.length / 4), on the collaborator's output
Tokens(response) == Length(response) \div TokenDivisor

\* lines 34-40: the 200 body
SuccessBody(message, response) ==
    [id |-> message.id, prompt |-> message.prompt, response |-> message.response,
     createdAt |-> message.createdAt, tokens |-> Tokens(response)]

\* lines 10-26: the request arrives; the handler runs up to its first await
PostGenerate(r, body) ==
    /\ req[r].pc = "idle"
    /\ \A q \in Requests : q < r => req[q].pc # "idle"   \* numbered by arrival
    /\ LET arrived == [req EXCEPT ![r].body = body]
           p == body.prompt
       IN  IF ~ParseOk(body)
           THEN req' = [arrived EXCEPT ![r].pc = "done",
                                       ![r].status = CatchStatus("ZodError")]
           ELSE IF PromptEmpty(p) \/ PromptTooLong(p)
           THEN req' = [arrived EXCEPT ![r].pc = "done", ![r].status = 400]
           ELSE req' = [arrived EXCEPT
                           ![r].pc = "awaitGenerate",
                           ![r].gen = "pending",
                           ![r].genArgs = Append(@, GenerateArgument(p))]
    /\ UNCHANGED <<messages, nextId, now, getResult, inserted>>
    /\ UNCHANGED chatVars

\* lines 26-32: generateText resolves with `out`; createMessage is called
GenerateResolved(r, out) ==
    /\ req[r].pc = "awaitGenerate"
    /\ \E t \in {now, now + 1} :
        /\ t <= MaxClock
        /\ LET message == NewMessage(InsertMessage(req[r].body.prompt, out), t)
           IN  /\ messages' = MapSet(messages, message.id, message)
               /\ inserted' = Append(inserted, message.id)
               /\ req' = [req EXCEPT ![r].pc = "awaitCreate",
                                     ![r].gen = "resolved",
                                     ![r].response = out,
                                     ![r].message = message]
        /\ now' = t
    /\ nextId' = nextId + 1
    /\ UNCHANGED getResult
    /\ UNCHANGED chatVars

\* lines 34-40: createMessage has resolved; the 200 body is sent
CreateResolved(r) ==
    /\ req[r].pc = "awaitCreate"
    /\ req' = [req EXCEPT ![r].pc = "done", ![r].status = 200,
                          ![r].resBody = SuccessBody(req[r].message, req[r].response)]
    /\ UNCHANGED <<messages, nextId, now, getResult, inserted>>
    /\ UNCHANGED chatVars

\* faulty variant: a rejected generateText is called again
GenerateRejectedRetry(r) ==
    /\ req[r].pc = "awaitGenerate"
    /\ req' = [req EXCEPT ![r].genArgs = Append(@, GenerateArgument(req[r].body.prompt))]
    /\ UNCHANGED <<messages, nextId, now, getResult, inserted>>
    /\ UNCHANGED chatVars

\* lines 26, 41-53: generateText rejects; the catch block answers
GenerateRejected(r) ==
    /\ req[r].pc = "awaitGenerate"
    /\ req' = [req EXCEPT ![r].pc = "done", ![r].gen = "rejected",
                          ![r].status = CatchStatus("Error")]
    /\ UNCHANGED <<messages, nextId, now, getResult, inserted>>
    /\ UNCHANGED chatVars

\* ------------------------------------------------ routes: GET /api/messages
\* faulty variant: the list is sent newest first
MessagesBodyNewestFirst(list) == [i \in 1..Len(list) |-> list[Len(list) + 1 - i]]

\* lines 60-61: the body sent for the list storage.getMessages() returned
MessagesBody(list) == list

GetMessages ==
    /\ getResult' = MessagesBody(StorageGetMessages)
    /\ UNCHANGED <<messages, nextId, now, req, inserted>>
    /\ UNCHANGED chatVars

Next ==
    \/ \E r \in Requests, body \in Bodies : PostGenerate(r, body)
    \/ \E r \in Requests, out \in GeneratedOutputs : GenerateResolved(r, out)
    \/ \E r \in Requests : CreateResolved(r)
    \/ \E r \in Requests : GenerateRejected(r)
    \/ GetMessages

Spec == Init /\ [][Next]_vars

\* ----------------------------------------------------------- Chat page (Chat.tsx)
Mutations == 1..Len(mutations)

\* the requests of the page that are in flight
InFlight == {m \in Mutations : mutations[m].status = "pending"}

\* generateMutation.isError: the state of the mutation the observer follows
IsError == current # 0 /\ mutations[current].status = "error"

\* line 116
IsSubmitDisabled ==
    Length(Trim(prompt)) = 0 \/ Length(prompt) > MaxPromptLen \/ isGenerating

\* apiRequest resolves only for a 200: the server answers 400 to these prompts
ServerAccepts(p) == ~PromptEmpty(p) /\ ~PromptTooLong(p)

\* generateMutation.mutate(variables), lines 34-38: a new mutation is started
\* and POST /api/generate is sent; the observer follows the new mutation
Mutate(variables) ==
    /\ Len(mutations) < MaxMutations
    /\ mutations' = Append(mutations, [variables |-> variables, status |-> "pending"])
    /\ current' = Len(mutations) + 1

\* lines 58-66
HandleSubmit ==
    LET trimmedPrompt == Trim(prompt)
    IN  IF Length(trimmedPrompt) = 0 \/ Length(trimmedPrompt) > MaxPromptLen
        THEN UNCHANGED <<isGenerating, mutations, current>>
        ELSE /\ isGenerating' = TRUE
             /\ Mutate(trimmedPrompt)

\* line 298: the user edits the textarea
SetPrompt(value) ==
    /\ prompt' = value
    /\ UNCHANGED <<isGenerating, mutations, current>>
    /\ UNCHANGED serverVars

\* lines 304-309, 288: a click on the enabled send button submits the form
SubmitClick ==
    /\ ~IsSubmitDisabled
    /\ HandleSubmit
    /\ UNCHANGED prompt
    /\ UNCHANGED serverVars

\* lines 68-75: Enter without Shift in the textarea
HandleKeyDown ==
    /\ IF Length(Trim(prompt)) # 0 /\ Length(prompt) <= MaxPromptLen /\ ~isGenerating
       THEN HandleSubmit
       ELSE UNCHANGED <<isGenerating, mutations, current>>
    /\ UNCHANGED prompt
    /\ UNCHANGED serverVars

\* lines 250, 264-272: "Try again" is rendered while the mutation is in error
RetryClick ==
    /\ IsError
    /\ Mutate(Trim(prompt))
    /\ UNCHANGED <<prompt, isGenerating>>
    /\ UNCHANGED serverVars

\* lines 39-45, 53-55: the request of mutation m is answered with 200
MutationSucceeded(m) ==
    /\ mutations[m].status = "pending"
    /\ ServerAccepts(mutations[m].variables)
    /\ mutations' = [mutations EXCEPT ![m].status = "success"]
    /\ prompt' = EmptyStr
    /\ isGenerating' = FALSE
    /\ UNCHANGED current
    /\ UNCHANGED serverVars

\* lines 46-55: the request of mutation m fails (400, 500, network)
MutationFailed(m) ==
    /\ mutations[m].status = "pending"
    /\ mutations' = [mutations EXCEPT ![m].status = "error"]
    /\ isGenerating' = FALSE
    /\ UNCHANGED <<prompt, current>>
    /\ UNCHANGED serverVars

ChatNext ==
    \/ \E value \in PromptInputs : SetPrompt(value)
    \/ SubmitClick
    \/ HandleKeyDown
    \/ RetryClick
    \/ \E m \in Mutations : MutationSucceeded(m)
    \/ \E m \in Mutations : MutationFailed(m)

ChatSpec == Init /\ [][ChatNext]_vars

\* ------------------------------------------------------------------ claims
Done(r) == req[r].pc = "done"

\* the messages of the store with identifier id
StoredWithId(id) == {i \in 1..Len(messages) : messages[i].id = id}

MessageIds(list) == [i \in 1..Len(list) |-> list[i].id]

IsPrefix(s, t) == Len(s) <= Len(t) /\ \A i \in 1..Len(s) : s[i] = t[i]

\* a string body whose prompt is empty after trimming or longer than 2000
Rejectable(body) ==
    /\ body.kind = "string"
    /\ (Length(Trim(body.prompt)) = 0 \/ Length(body.prompt) > MaxPromptLen)

Malformed(body) == body.kind # "string"

\* C1: a POST /api/generate whose prompt is empty after trimming or longer than
\* 2000 characters is answered with 400 in the step in which it arrives, that
\* step leaves the store as it was, and the collaborator is never invoked and
\* no message is ever created for it.
C1_InvalidPromptRejected ==
    /\ [][\A r \in Requests :
            (req[r].pc = "idle" /\ req'[r].pc # "idle" /\ Rejectable(req'[r].body))
            => /\ req'[r].pc = "done"
               /\ req'[r].status = 400
               /\ messages' = messages]_vars
    /\ [](\A r \in Requests :
            (req[r].pc # "idle" /\ Rejectable(req[r].body))
            => /\ Done(r)
               /\ req[r].status = 400
               /\ req[r].genArgs = << >>
               /\ req[r].message = NoMessage)

C1_Witness ==
    \E r \in Requests :
        /\ Done(r)
        /\ Length(req[r].body.prompt) > MaxPromptLen
        /\ Length(Trim(req[r].body.prompt)) <= MaxPromptLen
        /\ Len(messages) > 0

\* C2: a valid request whose collaborator call fails is answered with 500, no
\* message is created for it, the failing step leaves the store unchanged, and
\* no request invokes the collaborator more than once.
C2_GenerationFailure ==
    /\ [][\A r \in Requests :
            (req[r].gen # "rejected" /\ req'[r].gen = "rejected")
            => messages' = messages]_vars
    /\ [](\A r \in Requests :
            /\ Len(req[r].genArgs) <= 1
            /\ req[r].gen = "rejected"
               => /\ Done(r)
                  /\ req[r].status = 500
                  /\ Len(req[r].genArgs) = 1
                  /\ req[r].message = NoMessage
                  /\ \A i \in 1..Len(messages) :
                        \E q \in Requests \ {r} : req[q].message = messages[i])

C2_Witness ==
    \E r \in Requests :
        /\ req[r].gen = "rejected"
        /\ Done(r)
        /\ Len(messages) > 0

\* C3: a request answered with 200 has added exactly one message: the store
\* holds one message per resolved collaborator call, exactly one stored message
\* has the id of the 200 body, its prompt is the trimmed request prompt, its
\* response the trimmed collaborator output, and the body carries its id,
\* prompt, response and createdAt.
C3_SuccessStoresOne ==
    /\ Len(messages) = Cardinality({r \in Requests : req[r].gen = "resolved"})
    /\ \A r \in Requests :
        req[r].status = 200
        => LET b == req[r].resBody
           IN  /\ Cardinality(StoredWithId(b.id)) = 1
               /\ \A i \in StoredWithId(b.id) :
                    /\ messages[i].prompt = Trim(req[r].body.prompt)
                    /\ messages[i].response = Trim(req[r].response)
                    /\ messages[i] = [id |-> b.id, prompt |-> b.prompt,
                                      response |-> b.response,
                                      createdAt |-> b.createdAt]

C3_Witness ==
    \E r \in Requests :
        /\ req[r].status = 200
        /\ ~IsTrimmed(req[r].body.prompt)
        /\ ~IsTrimmed(req[r].response)
        /\ Len(messages) = NumRequests

\* C4: in every 200 body, tokens = floor(L / 4) for L the length of the
\* response string of that body.
C4_TokensOfReturnedResponse ==
    \A r \in Requests :
        req[r].status = 200
        => req[r].resBody.tokens = Length(req[r].resBody.response) \div TokenDivisor

\* C5: every argument passed to the generation collaborator is the trimmed
\* prompt, the string later stored as the message's prompt.
C5_CollaboratorGetsTrimmedPrompt ==
    \A r \in Requests :
        \A i \in 1..Len(req[r].genArgs) :
            /\ IsTrimmed(req[r].genArgs[i])
            /\ req[r].genArgs[i] = Trim(req[r].body.prompt)
            /\ req[r].gen = "resolved" => req[r].genArgs[i] = req[r].message.prompt

\* C6: every stored message has a trimmed, non-empty prompt of at most 2000
\* characters and a trimmed response.
C6_StoredMessagesWellFormed ==
    \A i \in 1..Len(messages) :
        /\ IsTrimmed(messages[i].prompt)
        /\ Length(messages[i].prompt) > 0
        /\ Length(messages[i].prompt) <= MaxPromptLen
        /\ IsTrimmed(messages[i].response)

C6_Witness ==
    /\ \E i \in 1..Len(messages) : Length(messages[i].prompt) = MaxPromptLen
    /\ \E r \in Requests :
        /\ req[r].gen = "resolved"
        /\ ~IsTrimmed(req[r].body.prompt)
        /\ ~IsTrimmed(req[r].response)

\* C7: every GET /api/messages returns exactly the messages inserted so far,
\* each once, in the order of their insertion, whatever the order in which the
\* concurrent requests' collaborator calls completed; so a message inserted
\* before another precedes it in every later result.
C7_MessagesInInsertionOrder ==
    /\ [][getResult' # getResult
          => /\ MessageIds(getResult') = inserted
             /\ \A i \in 1..Len(getResult') :
                  \E r \in Requests : req[r].message = getResult'[i]]_vars
    /\ [](/\ IsPrefix(MessageIds(getResult), inserted)
          /\ \A i, j \in 1..Len(inserted) : i # j => inserted[i] # inserted[j])

C7_Witness ==
    /\ Len(getResult) = 2
    /\ getResult[1] = req[2].message
    /\ getResult[2] = req[1].message

\* C8: the store is append-only: every step leaves the list of messages a
\* prefix of the list after it, and GET /api/messages leaves it unchanged.
C8_AppendOnly ==
    /\ [][IsPrefix(messages, messages')]_vars
    /\ [][getResult' # getResult => messages' = messages]_vars

C8_Witness ==
    /\ Len(messages) = NumRequests
    /\ Len(getResult) > 0
    /\ Len(getResult) < Len(messages)

\* C9: a malformed body (prompt missing or not a string) is answered with 400
\* in the step in which it arrives, without touching the collaborator or the
\* store; only a failed collaborator call is answered with 500.
C9_MalformedBodyIs400 ==
    /\ [][\A r \in Requests :
            (req[r].pc = "idle" /\ req'[r].pc # "idle" /\ Malformed(req'[r].body))
            => messages' = messages]_vars
    /\ [](\A r \in Requests :
            /\ (req[r].pc # "idle" /\ Malformed(req[r].body))
               => /\ Done(r)
                  /\ req[r].status = 400
                  /\ req[r].genArgs = << >>
                  /\ req[r].message = NoMessage
            /\ req[r].status = 500 => req[r].gen = "rejected")

C9_Witness ==
    /\ \E r \in Requests : Done(r) /\ req[r].body = MissingBody
    /\ \E r \in Requests : Done(r) /\ req[r].body = NonStringBody

\* C10: while a generate request of the page is in flight isGenerating is
\* true, and at most one such request is in flight.
C10_LoadingWhileInFlight ==
    /\ InFlight # {} => isGenerating
    /\ Cardinality(InFlight) <= 1

\* C11: every prompt the page sends with POST /api/generate is trimmed,
\* non-empty and at most 2000 characters long.
C11_PageSendsValidPrompts ==
    \A m \in Mutations :
        /\ IsTrimmed(mutations[m].variables)
        /\ Length(mutations[m].variables) > 0
        /\ Length(mutations[m].variables) <= MaxPromptLen

====
